---------------------------- MODULE Spec2Model ----------------------------
(***************************************************************************)
(* pix2reel: run_reel_assembly (src/pix2reel/assembly.py) as a state       *)
(* machine.  Every invocation is a process that walks through the body of  *)
(* run_reel_assembly; the filesystem (the files and the directory          *)
(* "temp_images") is shared by all invocations.  The HTTP server, the      *)
(* audio analysis (librosa) and the encoder (ffmpeg) are the environment:  *)
(* their answers are nondeterministic choices.                             *)
(*                                                                         *)
(* Times are whole seconds.  A path, a URL and an encoder source are       *)
(* records [dir, file, n]: n is the number formatted into the name         *)
(* (image_{i}.jpg, duration={d}).                                          *)
(***************************************************************************)
EXTENDS Integers, Sequences, FiniteSets, TLC

(* ------------------------------ bounds -------------------------------- *)
\* longest image list and caption list of a request
MaxImages == 2
\* largest caller-supplied cut point and largest onset time, in seconds
MaxTime == 2

(* --------------------------- program constants ------------------------ *)
base_duration == 3
temp_dir == "temp_images"
output_video == [dir |-> ".", file |-> "output_video.mp4", n |-> 0]
None == [dir |-> "", file |-> "None", n |-> 0]

Procs == {1, 2}

(* ------------------------------ the world ----------------------------- *)
join(d, f, i) == [dir |-> d, file |-> f, n |-> i]
Local(f) == join(".", f, 0)
Url(f) == join("http://host", f, 0)

\* a.jpg, b.jpg and song.mp3 are on disk when the program starts, the others are not
LocalImages == {Local("a.jpg"), Local("b.jpg"), Local("gone.jpg")}
LocalAudios == {Local("song.mp3"), Local("nosong.mp3")}
ImageUrls == {Url("1.jpg"), Url("2.jpg")}
MusicUrls == {Url("m.mp3")}

ImagePath(d, i) == join(d, "image_%d.jpg", i)
MusicPath(d) == join(d, "music.mp3", 0)
TempFiles == {ImagePath(temp_dir, i) : i \in 0..(MaxImages - 1)} \cup {MusicPath(temp_dir)}
AllFiles == LocalImages \cup LocalAudios \cup TempFiles

Absent == "<absent>"
Empty == ""
InitialFiles ==
    [f \in AllFiles |-> IF f \in {Local("a.jpg"), Local("b.jpg"), Local("song.mp3")}
                     THEN "data" ELSE Absent]

AllCaptions == <<"one", "two", "three", "four", "five">>
Captions(k) == SubSeq(AllCaptions, 1, k)
\* the same captions, the first one holding an apostrophe
QuotedCaptions(k) == [i \in 1..k |-> IF i = 1 THEN "it's" ELSE AllCaptions[i]]

SeqsUpTo(S, k) == UNION {[1..j -> S] : j \in 0..k}
TimeVals == 0..MaxTime

\* an optional list: Python's None, or a list
NoList == [given |-> FALSE, val |-> <<>>]
List(s) == [given |-> TRUE, val |-> s]

Requests(m, imgs, auds) ==
    [mode : {m},
     images : SeqsUpTo(imgs, MaxImages),
     texts : {Captions(k) : k \in 0..MaxImages}
                \cup {QuotedCaptions(k) : k \in 1..MaxImages},
     audio_file : {None} \cup auds,
     segment_durations : {NoList} \cup {List(s) : s \in SeqsUpTo(TimeVals, MaxImages + 1)}]

AllRequests == Requests("directory", LocalImages, LocalAudios)
                   \cup Requests("url", ImageUrls, MusicUrls)

(* ------------------------------- state -------------------------------- *)
VARIABLES
    files,              \* the filesystem: file -> content, or Absent
    dirs,               \* the directories that exist
    request,            \* the arguments each invocation was called with
    pc,                 \* where each invocation is in run_reel_assembly
    images,             \* locals of run_reel_assembly
    audio_file,
    segment_durations,
    final_images,
    command,
    returncode,
    stderr,
    error_message,
    result,             \* how the call ended: returned, or the exception raised
    analysis,           \* what get_segments_for_music did in this call
    fetched,            \* the GETs each invocation made, in order: url and answer
    encoder_started     \* whether subprocess.run started the encoder

vars == <<files, dirs, request, pc, images, audio_file, segment_durations,
          final_images, command, returncode, stderr, error_message, result,
          analysis, fetched, encoder_started>>

exists(path) == IF path \in AllFiles THEN files[path] # Absent ELSE FALSE

Running == [status |-> "running", exc |-> "", line |-> 0]
Returned == [status |-> "returned", exc |-> "", line |-> 0]
Raised(e, l) == [status |-> "raised", exc |-> e, line |-> l]

NoCommand == [inputs |-> <<>>, filter_complex |-> <<>>, map |-> <<>>, output |-> None]

\* what get_segments_for_music did: not called, returned onset_times, or raised exc
NotCalled == [outcome |-> "not_called", exc |-> "", onset_times |-> <<>>]
AnalysisReturned(s) == [outcome |-> "returned", exc |-> "", onset_times |-> s]
AnalysisRaised(e) == [outcome |-> "raised", exc |-> e, onset_times |-> <<>>]


(* ------------------------- the pure functions ------------------------- *)
\* the schedule without its leading 0.0
UniformScheduleNoZero(imgs) == [i \in 1..Len(imgs) |-> base_duration * i]

\* assembly.py:124-125: [0.0] + [base_duration * (i+1) for i in range(len(images))]
UniformSchedule(imgs) == <<0>> \o [i \in 1..Len(imgs) |-> base_duration * i]

\* assembly.py:128: len(segment_durations) < len(images) + 1
TooFew(segs, imgs) == Len(segs) < Len(imgs) + 1

\* the slice taken from the wrong end: segment_durations[-(len(images)+1):]
TruncateTail(segs, imgs) ==
    IF Len(segs) > Len(imgs) + 1
    THEN SubSeq(segs, Len(segs) - Len(imgs), Len(segs))
    ELSE segs

\* no truncation at all
TruncateNever(segs, imgs) == segs

\* assembly.py:130-131: segment_durations[:len(images)+1] when there are more
Truncate(segs, imgs) ==
    IF Len(segs) > Len(imgs) + 1 THEN SubSeq(segs, 1, Len(imgs) + 1) ELSE segs

\* a one-sided count check: len(images) > len(texts)
CountMismatchOneWay(imgs, txts) == Len(imgs) > Len(txts)

\* assembly.py:107: len(images) != len(texts)
CountMismatch(imgs, txts) == Len(imgs) # Len(txts)

\* assembly.py:110: not all(os.path.exists(img) for img in images)
SomeImageMissing(imgs) == \E i \in 1..Len(imgs) : ~exists(imgs[i])

\* the audio path kept without looking at the disk
AudioUnchecked(audio) == audio

\* assembly.py:113-116: an audio path that is not on disk becomes None
AudioOrSilence(audio) == IF audio # None /\ ~exists(audio) THEN None ELSE audio

\* an except clause that names the audio library's error only
NarrowExcept(e) == e = "LibrosaError"

\* assembly.py:122: a bare except catches every exception
BareExcept(e) == TRUE

(* an encoder input: -f f (when f is not ""), -loop 1 (when loop), -t t[1]  *)
(* (when t is not empty), -i i                                               *)
Input(f, loop, t, i) == [f |-> f, loop |-> loop, t |-> t, i |-> i]
AudioInput(audio) ==
    IF audio # None
    THEN Input("", FALSE, <<>>, audio)
    ELSE Input("lavfi", FALSE, <<>>,
               join("lavfi", "anullsrc=channel_layout=stereo:sample_rate=44100", 0))

\* a pad of the filter graph: [i:v], [i:a] or a label such as [img3]
In(i, kind) == [kind |-> "in", name |-> kind, n |-> i]
Label(name, i) == [kind |-> "label", name |-> name, n |-> i]
Node(ins, op, text, arg, out) ==
    [ins |-> ins, op |-> op, text |-> text, arg |-> arg, out |-> out]

\* assembly.py:194-219
generate_filter_complex_string(txts, imgs, segs) ==
    <<Node(<<In(0, "v")>>, "setsar", "", 1, Label("empty", 0))>>
    \o [i \in 1..Len(txts) |->
          Node(<<In(i, "v")>>, "scale,pad,setsar,format,drawtext", txts[i], 0,
               Label("img", i))]
    \o <<Node(<<Label("empty", 0)>> \o [i \in 1..Len(imgs) |-> Label("img", i)],
              "concat", "", Len(imgs) + 1, Label("outv", 0)),
         Node(<<In(Len(imgs) + 1, "a")>>, "atrim,volume", "", segs[Len(segs)],
              Label("outa", 0))>>

\* The text of the graph, piece by piece as lines 200-218 write it: pads, the
\* quote character, the chain separator, and everything else as plain text.
Quote == [kind |-> "quote", name |-> "'", n |-> 0]
Sep == [kind |-> "sep", name |-> ";", n |-> 0]
Plain(s, a) == [kind |-> "text", name |-> s, n |-> a]
\* the characters of a caption: f"{texts[i]}" copies them unchanged
Chars(caption) ==
    IF caption = "it's" THEN <<Plain("it", 0), Quote, Plain("s", 0)>>
    ELSE <<Plain(caption, 0)>>
ChainText(nd) ==
    nd.ins
    \o (IF nd.op = "scale,pad,setsar,format,drawtext"
        THEN <<Plain("scale,pad,setsar,format,drawtext=text=", 0), Quote>>
             \o Chars(nd.text)
             \o <<Quote, Plain(":fontsize=60:fontcolor=white:shadowcolor=black", 0)>>
        ELSE <<Plain(nd.op, nd.arg)>>)
    \o <<nd.out>>
RECURSIVE filter_complex_string(_)
filter_complex_string(fc) ==
    IF fc = <<>> THEN <<>>
    ELSE IF Len(fc) = 1 THEN ChainText(fc[1])
    ELSE ChainText(fc[1]) \o <<Sep>> \o filter_complex_string(Tail(fc))

\* each image played until its cut point instead of for the time between two
\* cut points: -t {segment_durations[i + 1]}
assemble_ffmpeg_commands_absolute_t(imgs, txts, audio, out, segs) ==
    [inputs |->
        <<Input("lavfi", FALSE, <<>>,
                join("lavfi", "color=color=black:size=1080x1920:duration=%d", segs[1]))>>
        \o [i \in 1..Len(imgs) |-> Input("", TRUE, <<segs[i + 1]>>, imgs[i])]
        \o <<AudioInput(audio)>>,
     filter_complex |-> generate_filter_complex_string(txts, imgs, segs),
     map |-> <<Label("outv", 0), Label("outa", 0)>>,
     output |-> out]

\* assembly.py:149-192
assemble_ffmpeg_commands(imgs, txts, audio, out, segs) ==
    [inputs |->
        <<Input("lavfi", FALSE, <<>>,
                join("lavfi", "color=color=black:size=1080x1920:duration=%d", segs[1]))>>
        \o [i \in 1..Len(imgs) |-> Input("", TRUE, <<segs[i + 1] - segs[i]>>, imgs[i])]
        \o <<AudioInput(audio)>>,
     filter_complex |-> generate_filter_complex_string(txts, imgs, segs),
     map |-> <<Label("outv", 0), Label("outa", 0)>>,
     output |-> out]

(* --------------------------- the environment -------------------------- *)
\* what a GET can do: 200 with a body, 200 with an empty body, another status,
\* or requests.get raising.  requests.get(None) raises MissingSchema.
Responses(url) ==
    IF url = None THEN {"MissingSchema"}
    ELSE {"ok", "empty", "http_error", "RequestException"}
Payload(url, resp) == IF resp = "empty" THEN Empty ELSE url.file

\* librosa's onset times: increasing
OnsetSeqs == {s \in SeqsUpTo(TimeVals, MaxTime + 1) :
                 \A i \in 1..Len(s) : \A j \in 1..Len(s) : i < j => s[i] < s[j]}
\* process_audios.py:17-32: librosa.load raises on None and on a missing file and
\* may raise on any file; an interrupt can arrive while it runs
AnalysisErrors(audio) ==
    {"KeyboardInterrupt"} \cup
    (IF audio = None THEN {"TypeError"}
     ELSE IF exists(audio) THEN {"LibrosaError"} ELSE {"FileNotFoundError"})
AnalysisReturns(audio) == IF audio # None /\ exists(audio) THEN OnsetSeqs ELSE {}

Diagnostics == {"invalid pixel format", "No such file or directory"}

(* ------------------------------- Init --------------------------------- *)
IdleRequest == [mode |-> "directory", images |-> <<>>, texts |-> <<>>,
                audio_file |-> None, segment_durations |-> NoList]
NoMessage == [prefix |-> "", text |-> ""]

\* the invocations in `calls` are about to run, each with any request of reqs
InitWith(calls, reqs) ==
    /\ files = InitialFiles
    /\ dirs = {}
    /\ \E r \in [calls -> reqs] :
          request = [p \in Procs |-> IF p \in calls THEN r[p] ELSE IdleRequest]
    /\ pc = [p \in Procs |-> IF p \in calls THEN "start" ELSE "idle"]
    /\ images = [p \in Procs |-> request[p].images]
    /\ audio_file = [p \in Procs |-> request[p].audio_file]
    /\ segment_durations = [p \in Procs |-> request[p].segment_durations]
    /\ final_images = [p \in Procs |-> <<>>]
    /\ command = [p \in Procs |-> NoCommand]
    /\ returncode = [p \in Procs |-> -1]
    /\ stderr = [p \in Procs |-> ""]
    /\ error_message = [p \in Procs |-> NoMessage]
    /\ result = [p \in Procs |-> Running]
    /\ analysis = [p \in Procs |-> NotCalled]
    /\ fetched = [p \in Procs |-> <<>>]
    /\ encoder_started = [p \in Procs |-> FALSE]

\* one invocation
Init == InitWith({1}, AllRequests)

(* ------------------------------ actions ------------------------------- *)
Goto(p, label) == pc' = [pc EXCEPT ![p] = label]
Raise(p, e, l) ==
    /\ pc' = [pc EXCEPT ![p] = "done"]
    /\ result' = [result EXCEPT ![p] = Raised(e, l)]

\* assembly.py:95-99
Start(p) ==
    /\ pc[p] = "start"
    /\ IF request[p].mode = "url"
       THEN /\ dirs' = dirs \cup {temp_dir}
            /\ Goto(p, IF Len(images[p]) = 0 THEN "download_music" ELSE "download_images")
       ELSE /\ dirs' = dirs
            /\ Goto(p, "validate")
    /\ UNCHANGED <<files, request, fetched, images, audio_file, segment_durations, final_images,
                   command, returncode, stderr, error_message, result, analysis,
                   encoder_started>>

\* the same without the check of response.status_code
FetchIgnoringStatus(url, file_path, resp) ==
    IF resp \in {"RequestException", "MissingSchema"}
    THEN [files |-> files, exc |-> resp, at |-> "get"]
    ELSE IF file_path.dir \notin dirs
    THEN [files |-> files, exc |-> "FileNotFoundError", at |-> "open"]
    ELSE IF Payload(url, resp) = Empty
    THEN [files |-> [files EXCEPT ![file_path] = Empty], exc |-> "RuntimeError", at |-> "size"]
    ELSE [files |-> [files EXCEPT ![file_path] = Payload(url, resp)], exc |-> "", at |-> "ok"]

\* assembly.py:21-36 and 49-63: one GET and the write of its body to file_path
Fetch(url, file_path, resp) ==
    IF resp \in {"RequestException", "MissingSchema"}
    THEN [files |-> files, exc |-> resp, at |-> "get"]
    ELSE IF resp = "http_error"
    THEN [files |-> files, exc |-> "RuntimeError", at |-> "status"]
    ELSE IF file_path.dir \notin dirs
    THEN [files |-> files, exc |-> "FileNotFoundError", at |-> "open"]
    ELSE IF Payload(url, resp) = Empty
    THEN [files |-> [files EXCEPT ![file_path] = Empty], exc |-> "RuntimeError", at |-> "size"]
    ELSE [files |-> [files EXCEPT ![file_path] = Payload(url, resp)], exc |-> "", at |-> "ok"]
ImageLines == [get |-> 21, status |-> 26, open |-> 30, size |-> 36]
MusicLines == [get |-> 49, status |-> 53, open |-> 57, size |-> 63]

\* assembly.py:16-44 and 101: one turn of download_images' loop
DownloadImage(p) ==
    /\ pc[p] = "download_images"
    /\ LET i == Len(final_images[p])
           file_path == ImagePath(temp_dir, i)
       IN \E resp \in Responses(images[p][i + 1]) :
            LET got == Fetch(images[p][i + 1], file_path, resp)
            IN /\ files' = got.files
               /\ fetched' = [fetched EXCEPT
                                ![p] = Append(@, [url |-> images[p][i + 1], resp |-> resp])]
               /\ IF got.exc # ""
                  THEN /\ Raise(p, got.exc, ImageLines[got.at])
                       /\ UNCHANGED final_images
                  ELSE /\ final_images' = [final_images EXCEPT ![p] = Append(@, file_path)]
                       /\ Goto(p, IF i + 1 = Len(images[p]) THEN "download_music"
                                  ELSE "download_images")
                       /\ UNCHANGED result
    /\ UNCHANGED <<dirs, request, images, audio_file, segment_durations, command,
                   returncode, stderr, error_message, analysis, encoder_started>>

\* assembly.py:47-69 and 102-104
DownloadMusic(p) ==
    /\ pc[p] = "download_music"
    /\ LET file_path == MusicPath(temp_dir)
       IN \E resp \in Responses(audio_file[p]) :
            LET got == Fetch(audio_file[p], file_path, resp)
            IN /\ files' = got.files
               /\ fetched' = [fetched EXCEPT
                                ![p] = Append(@, [url |-> audio_file[p], resp |-> resp])]
               /\ IF got.exc # ""
                  THEN /\ Raise(p, got.exc, MusicLines[got.at])
                       /\ UNCHANGED <<audio_file, images>>
                  ELSE /\ audio_file' = [audio_file EXCEPT ![p] = file_path]
                       /\ images' = [images EXCEPT ![p] = final_images[p]]
                       /\ Goto(p, "validate")
                       /\ UNCHANGED result
    /\ UNCHANGED <<dirs, request, segment_durations, final_images, command,
                   returncode, stderr, error_message, analysis, encoder_started>>

\* assembly.py:106-111
ValidateInputs(p) ==
    /\ pc[p] = "validate"
    /\ IF CountMismatch(images[p], request[p].texts)
       THEN Raise(p, "ValueError", 108)
       ELSE IF SomeImageMissing(images[p])
       THEN Raise(p, "FileNotFoundError", 111)
       ELSE Goto(p, "check_audio") /\ UNCHANGED result
    /\ UNCHANGED <<files, dirs, request, fetched, images, audio_file, segment_durations,
                   final_images, command, returncode, stderr, error_message, analysis,
                   encoder_started>>

\* assembly.py:113-116
CheckAudio(p) ==
    /\ pc[p] = "check_audio"
    /\ audio_file' = [audio_file EXCEPT ![p] = AudioOrSilence(@)]
    /\ Goto(p, "resolve")
    /\ UNCHANGED <<files, dirs, request, fetched, images, segment_durations, final_images,
                   command, returncode, stderr, error_message, result, analysis,
                   encoder_started>>

\* assembly.py:118-125, with get_segments_for_music (process_audios.py:3-32)
ResolveSegments(p) ==
    /\ pc[p] = "resolve"
    /\ IF segment_durations[p].given
       THEN /\ Goto(p, "check_len")
            /\ UNCHANGED <<segment_durations, analysis, result>>
       ELSE \/ \E onset_times \in AnalysisReturns(audio_file[p]) :
                 /\ segment_durations' = [segment_durations EXCEPT ![p] = List(onset_times)]
                 /\ analysis' = [analysis EXCEPT ![p] = AnalysisReturned(onset_times)]
                 /\ Goto(p, "check_len")
                 /\ UNCHANGED result
            \/ \E e \in AnalysisErrors(audio_file[p]) :
                 /\ analysis' = [analysis EXCEPT ![p] = AnalysisRaised(e)]
                 /\ IF BareExcept(e)
                    THEN /\ segment_durations' =
                               [segment_durations EXCEPT
                                   ![p] = List(UniformSchedule(images[p]))]
                         /\ Goto(p, "check_len")
                         /\ UNCHANGED result
                    ELSE /\ Raise(p, e, 121)
                         /\ UNCHANGED segment_durations
    /\ UNCHANGED <<files, dirs, request, fetched, images, audio_file, final_images, command,
                   returncode, stderr, error_message, encoder_started>>

\* assembly.py:127-134
CheckAndAssemble(p) ==
    /\ pc[p] = "check_len"
    /\ IF TooFew(segment_durations[p].val, images[p])
       THEN /\ Raise(p, "ValueError", 129)
            /\ UNCHANGED <<segment_durations, command>>
       ELSE LET segs == Truncate(segment_durations[p].val, images[p])
            IN /\ segment_durations' = [segment_durations EXCEPT ![p] = List(segs)]
               /\ command' = [command EXCEPT ![p] =
                                 assemble_ffmpeg_commands(images[p], request[p].texts,
                                                          audio_file[p], output_video, segs)]
               /\ Goto(p, "run")
               /\ UNCHANGED result
    /\ UNCHANGED <<files, dirs, request, fetched, images, audio_file, final_images, returncode,
                   stderr, error_message, analysis, encoder_started>>

\* assembly.py:137: subprocess.run starts the encoder, or raises when there is
\* no ffmpeg to start
RunEncoder(p) ==
    /\ pc[p] = "run"
    /\ \/ /\ encoder_started' = [encoder_started EXCEPT ![p] = TRUE]
          /\ Goto(p, "encoding")
          /\ UNCHANGED result
       \/ /\ Raise(p, "FileNotFoundError", 137)
          /\ UNCHANGED encoder_started
    /\ UNCHANGED <<files, dirs, request, fetched, images, audio_file, segment_durations,
                   final_images, command, returncode, stderr, error_message, analysis>>

\* assembly.py:137: the encoder exits
ExitCodes == {0, 1}
EncoderExit(p) ==
    /\ pc[p] = "encoding"
    /\ \E rc \in ExitCodes :
         \E text \in (IF rc = 0 THEN {""} ELSE Diagnostics) :
            /\ returncode' = [returncode EXCEPT ![p] = rc]
            /\ stderr' = [stderr EXCEPT ![p] = text]
    /\ Goto(p, "cleanup")
    /\ UNCHANGED <<files, dirs, request, fetched, images, audio_file, segment_durations,
                   final_images, command, error_message, result, analysis,
                   encoder_started>>

\* shutil.rmtree(d)
rmtree(d) ==
    /\ dirs' = dirs \ {d}
    /\ files' = [f \in AllFiles |-> IF f.dir = d THEN Absent ELSE files[f]]

\* assembly.py:98: the local temp_dir is assigned in url mode only
TempDirBound(p) == request[p].mode = "url"

\* assembly.py:138-146.  In (mode == "url") & os.path.exists(temp_dir) the operator
\* & evaluates both sides: where temp_dir was never assigned, reading it raises
\* UnboundLocalError, on the success path (139) and in the except clause (144).
Cleanup(p) ==
    /\ pc[p] = "cleanup"
    /\ IF returncode[p] = 0
       THEN UNCHANGED error_message
       ELSE error_message' = [error_message EXCEPT ![p] =
                                 [prefix |-> "Error generating reel: ", text |-> stderr[p]]]
    /\ IF ~TempDirBound(p)
       THEN /\ result' = [result EXCEPT ![p] =
                             Raised("UnboundLocalError",
                                    IF returncode[p] = 0 THEN 139 ELSE 144)]
            /\ UNCHANGED <<files, dirs>>
       ELSE /\ IF request[p].mode = "url" /\ temp_dir \in dirs
               THEN rmtree(temp_dir)
               ELSE UNCHANGED <<files, dirs>>
            /\ result' = [result EXCEPT ![p] =
                             IF returncode[p] = 0 THEN Returned
                             ELSE Raised("RuntimeError", 146)]
    /\ pc' = [pc EXCEPT ![p] = "done"]
    /\ UNCHANGED <<request, fetched, images, audio_file, segment_durations, final_images,
                   command, returncode, stderr, analysis, encoder_started>>

Next ==
    \E p \in Procs :
        \/ Start(p)
        \/ DownloadImage(p)
        \/ DownloadMusic(p)
        \/ ValidateInputs(p)
        \/ CheckAudio(p)
        \/ ResolveSegments(p)
        \/ CheckAndAssemble(p)
        \/ RunEncoder(p)
        \/ EncoderExit(p)
        \/ Cleanup(p)

Spec == Init /\ [][Next]_vars

(* two calls in remote-fetch mode at the same time, each with one image *)
ConcRequests ==
    [mode : {"url"},
     images : [1..1 -> ImageUrls],
     texts : {Captions(1)},
     audio_file : MusicUrls,
     segment_durations : {NoList, List(<<0, 1>>)}]
InitConc == InitWith(Procs, ConcRequests)
SpecConc == InitConc /\ [][Next]_vars

(* ======================== the claims, C1 .. ========================== *)
Called(p) == pc[p] # "idle"
N(p) == Len(request[p].images)
Assembled(p) == command[p] # NoCommand
DownloadLines == {21, 26, 30, 36, 49, 53, 57, 63}
SilenceSource == join("lavfi", "anullsrc=channel_layout=stereo:sample_rate=44100", 0)

\* the request's counts differ, or (directory mode) one of its image paths is
\* not on disk
BadInput(p) ==
    \/ Len(request[p].images) # Len(request[p].texts)
    \/ /\ request[p].mode = "directory"
       /\ \E i \in 1..N(p) : files[request[p].images[i]] = Absent

\* the request is valid but for its audio: counts match, the images are on disk,
\* explicit durations (if any) are enough
OtherwiseValid(p) ==
    /\ ~BadInput(p)
    /\ request[p].segment_durations.given
          => Len(request[p].segment_durations.val) >= N(p) + 1

\* the command's last input is the generated silence and it is input N+1
LastInputIsSilence(p) ==
    /\ Len(command[p].inputs) = N(p) + 2
    /\ command[p].inputs[N(p) + 2].f = "lavfi"
    /\ command[p].inputs[N(p) + 2].i = SilenceSource

(* C1 as stated: a call whose image and caption counts differ, or one of    *)
(* whose image paths does not exist, ends in ValueError or                   *)
(* FileNotFoundError, in either mode, and builds no command and starts no    *)
(* encoder.  (Stated for the requests that name an audio track: a url-mode   *)
(* request without one is C3's subject.)                                     *)
C1_AsClaimed ==
    \A p \in Procs :
        Called(p) /\ BadInput(p) /\ request[p].audio_file # None =>
            /\ command[p] = NoCommand
            /\ ~encoder_started[p]
            /\ pc[p] = "done" =>
                  /\ result[p].status = "raised"
                  /\ result[p].exc \in {"ValueError", "FileNotFoundError"}
                  /\ result[p].line \in {108, 111}

(* C1, amended: such a call never gets past the validation, builds no        *)
(* command and starts no encoder, and it ends in an exception: ValueError    *)
(* (line 108) or FileNotFoundError (line 111) whenever the validation is     *)
(* reached, which is always in directory mode; in url mode a download error  *)
(* raised before the validation may end the call instead.                    *)
C1_Validation ==
    \A p \in Procs :
        Called(p) /\ BadInput(p) =>
            /\ command[p] = NoCommand
            /\ ~encoder_started[p]
            /\ pc[p] \in {"start", "download_images", "download_music", "validate", "done"}
            /\ pc[p] = "done" =>
                  /\ result[p].status = "raised"
                  /\ \/ result[p] \in {Raised("ValueError", 108),
                                       Raised("FileNotFoundError", 111)}
                     \/ /\ request[p].mode = "url"
                        /\ result[p].line \in DownloadLines

\* a url-mode call with differing counts downloaded everything and ended in the
\* ValueError of line 108
C1_Witness ==
    \E p \in Procs :
        /\ BadInput(p)
        /\ request[p].mode = "url"
        /\ N(p) >= 1
        /\ result[p] = Raised("ValueError", 108)

\* the request names an audio path that is not on disk
AudioMissing(p) ==
    /\ request[p].mode = "directory"
    /\ request[p].audio_file # None
    /\ files[request[p].audio_file] = Absent

(* C2: a call given an audio path that is not on disk does not fail for it: *)
(* the command it builds has the generated silence as its last input,       *)
(* input N+1, and names the missing path nowhere; with the other inputs     *)
(* valid the call reaches the command, and whatever it raises is raised     *)
(* after the command was built, by the encoder run and the cleanup (lines   *)
(* 137 to 146).                                                             *)
C2_MissingAudioIsSilence ==
    \A p \in Procs :
        Called(p) /\ AudioMissing(p) =>
            /\ Assembled(p) =>
                  /\ LastInputIsSilence(p)
                  /\ \A k \in 1..Len(command[p].inputs) :
                        command[p].inputs[k].i # request[p].audio_file
                  /\ command[p].output # request[p].audio_file
            /\ OtherwiseValid(p) /\ pc[p] = "done" =>
                  /\ Assembled(p)
                  /\ result[p].line \in {137, 139, 144}

\* a command was built for a request with images and a missing audio path
C2_Witness ==
    \E p \in Procs : AudioMissing(p) /\ Assembled(p) /\ N(p) >= 1 /\ pc[p] = "done"

(* C3 as stated: a request without audio (audio_file None) is valid in      *)
(* every mode, url included: no failure comes from the missing audio, and   *)
(* with otherwise valid inputs (and every image downloaded) the call        *)
(* reaches the command, whose input N+1 is the generated silence.           *)
C3_AsClaimed ==
    \A p \in Procs :
        Called(p) /\ request[p].audio_file = None =>
            /\ result[p].status = "raised" => result[p].line \notin {49, 53, 57, 63}
            /\ Assembled(p) => LastInputIsSilence(p)
            /\ (OtherwiseValid(p) /\ pc[p] = "done"
                  /\ result[p].line \notin {21, 26, 30, 36}) => Assembled(p)

\* [0, 3, 6, ..., 3n]
Uniform3(n) == [i \in 1..(n + 1) |-> 3 * (i - 1)]
PastResolve(p) == pc[p] \in {"check_len", "run", "encoding", "cleanup"} \/ Assembled(p)
PastCheck(p) == pc[p] \in {"run", "encoding", "cleanup"} \/ Assembled(p)

(* C4: for N >= 1 images, without explicit durations and without onsets (no *)
(* audio, or the analysis unavailable), the cut points are exactly          *)
(* [0, 3, ..., 3N]: without audio the analysis yields no onsets, and the    *)
(* command is built with a spacer of 0 seconds and 3 seconds an image.      *)
C4_UniformFallback ==
    \A p \in Procs :
        Called(p) /\ ~request[p].segment_durations.given /\ N(p) >= 1 =>
            /\ PastResolve(p) /\ audio_file[p] = None => analysis[p].outcome = "raised"
            /\ analysis[p].outcome = "raised" =>
                  /\ segment_durations[p] = List(Uniform3(N(p)))
                  /\ Assembled(p) =>
                        /\ command[p].inputs[1].i.n = 0
                        /\ \A i \in 1..N(p) : command[p].inputs[i + 1].t = <<3>>

\* a command was built on the fallback for the longest image list
C4_Witness ==
    \E p \in Procs :
        /\ ~request[p].segment_durations.given
        /\ N(p) = MaxImages
        /\ analysis[p].outcome = "raised"
        /\ Assembled(p)

\* the request brings at least N+1 explicit cut points
EnoughExplicit(p) ==
    /\ request[p].segment_durations.given
    /\ Len(request[p].segment_durations.val) >= N(p) + 1

(* C5: explicit segment_durations of length >= N+1 reach the command as     *)
(* their first N+1 entries, in order and unchanged; the surplus is dropped  *)
(* and raises nothing, and the audio analysis is not consulted.             *)
C5_ExplicitPrefix ==
    \A p \in Procs :
        Called(p) /\ EnoughExplicit(p) =>
            /\ result[p] # Raised("ValueError", 129)
            /\ analysis[p] = NotCalled
            /\ PastCheck(p) =>
                  /\ Assembled(p)
                  /\ segment_durations[p].val
                        = [i \in 1..(N(p) + 1) |-> request[p].segment_durations.val[i]]
                  /\ command[p].inputs[1].i.n = request[p].segment_durations.val[1]
                  /\ \A i \in 1..N(p) :
                        command[p].inputs[i + 1].t
                            = <<request[p].segment_durations.val[i + 1]
                                  - request[p].segment_durations.val[i]>>

\* a command was built from explicit durations with a surplus entry
C5_Witness ==
    \E p \in Procs :
        /\ request[p].segment_durations.given
        /\ Len(request[p].segment_durations.val) > N(p) + 1
        /\ N(p) >= 1
        /\ Assembled(p)

(* C6: when no explicit durations are given and get_segments_for_music      *)
(* raises, whatever it raises, the exception does not reach the caller: the *)
(* call goes on with the uniform schedule, passes the length check and      *)
(* builds the command.                                                      *)
C6_AnalysisFailureCaught ==
    \A p \in Procs :
        Called(p) /\ analysis[p].outcome = "raised" =>
            /\ ~request[p].segment_durations.given
            /\ ~(result[p].status = "raised" /\ result[p].line \in {121, 129})
            /\ pc[p] \in {"check_len", "run", "encoding", "cleanup", "done"}
            /\ segment_durations[p] = List(Uniform3(N(p)))
            /\ pc[p] # "check_len" => Assembled(p)

\* the analysis of an audio file that is on disk raised, and the command was built
C6_Witness ==
    \E p \in Procs :
        /\ analysis[p].outcome = "raised"
        /\ audio_file[p] # None
        /\ N(p) >= 1
        /\ Assembled(p)

(* C7 as stated: when no explicit durations are given and the analysis      *)
(* returns fewer than the N+1 onsets that N >= 1 images need, the call      *)
(* falls back to [0, 3, ..., 3N] and builds the command; it does not end in *)
(* a ValidationFailure.                                                     *)
C7_AsClaimed ==
    \A p \in Procs :
        (/\ Called(p)
         /\ N(p) >= 1
         /\ analysis[p].outcome = "returned"
         /\ Len(analysis[p].onset_times) < N(p) + 1
         /\ pc[p] \in {"run", "encoding", "cleanup", "done"}) =>
            /\ result[p] # Raised("ValueError", 129)
            /\ Assembled(p)
            /\ segment_durations[p] = List(Uniform3(N(p)))

(* C8 as stated, for the onset-derived cut points: they reach the command   *)
(* with first entry 0 (prefixed with 0.0 when the first onset is not zero), *)
(* so the black spacer, input 0, has duration 0.                            *)
C8_AsClaimed ==
    \A p \in Procs :
        Called(p) /\ N(p) >= 1 /\ analysis[p].outcome = "returned" /\ Assembled(p) =>
            /\ segment_durations[p].val[1] = 0
            /\ command[p].inputs[1].i.n = 0

(* C9 as stated: in url mode, once the call has returned or raised, the     *)
(* directory temp_images it created no longer exists.  (Stated for the      *)
(* requests that name an audio track.)                                      *)
C9_AsClaimed ==
    \A p \in Procs :
        (/\ Called(p)
         /\ request[p].mode = "url"
         /\ request[p].audio_file # None
         /\ pc[p] = "done") => temp_dir \notin dirs

(* C10 as stated: of two concurrent url-mode calls, neither overwrites nor  *)
(* deletes what the other has downloaded and still needs: until its encoder *)
(* has exited, each file a call has downloaded holds what that call         *)
(* downloaded into it.                                                      *)
C10_AsClaimed ==
    \A p \in Procs :
        (/\ request[p].mode = "url"
         /\ pc[p] \in {"download_images", "download_music", "validate", "check_audio",
                       "resolve", "check_len", "run", "encoding"}) =>
            /\ \A i \in 1..Len(final_images[p]) :
                  files[final_images[p][i]] = request[p].images[i].file
            /\ pc[p] \notin {"download_images", "download_music"} =>
                  files[MusicPath(temp_dir)] = request[p].audio_file.file

(* C11 as stated: when the encoder exits with a non-zero code the call ends *)
(* in RuntimeError (line 146) whose message carries the encoder's stderr    *)
(* text unmodified, and when it exits with code 0 the call returns          *)
(* normally; no encoder failure is swallowed or reported as success.        *)
C11_AsClaimed ==
    \A p \in Procs :
        Called(p) /\ N(p) >= 1 /\ pc[p] = "done" /\ returncode[p] # -1 =>
            IF returncode[p] = 0
            THEN result[p] = Returned
            ELSE /\ result[p] = Raised("RuntimeError", 146)
                 /\ error_message[p].text = stderr[p]

\* the cut points the call got, explicit or from the onsets, are fewer than N+1
CutPointsTooFew(p) ==
    \/ /\ request[p].segment_durations.given
       /\ Len(request[p].segment_durations.val) < N(p) + 1
    \/ /\ analysis[p].outcome = "returned"
       /\ Len(analysis[p].onset_times) < N(p) + 1

(* C12: whenever the command and its filter graph have been built, there    *)
(* are as many images as captions and exactly len(images) + 1 cut points,   *)
(* whether these are explicit, onset-derived or the fallback; a call whose  *)
(* cut points are fewer never builds the graph or starts the encoder, and   *)
(* when it reaches the length check it ends in the ValueError of line 129.  *)
C12_LengthsAtAssembly ==
    \A p \in Procs :
        Called(p) =>
            /\ Assembled(p) =>
                  /\ Len(images[p]) = Len(request[p].texts)
                  /\ Len(segment_durations[p].val) = Len(images[p]) + 1
                  /\ Len(command[p].inputs) = Len(images[p]) + 2
                  /\ Len(command[p].filter_complex) = Len(images[p]) + 3
            /\ CutPointsTooFew(p) =>
                  /\ ~Assembled(p)
                  /\ ~encoder_started[p]
                  /\ pc[p] \notin {"run", "encoding", "cleanup"}
                  /\ pc[p] = "done" =>
                        /\ result[p].status = "raised"
                        /\ result[p].line \in DownloadLines \cup {108, 111, 129}
                        /\ analysis[p].outcome = "returned"
                              => result[p] = Raised("ValueError", 129)

\* a command was built from onsets that had to be truncated
C12_Witness ==
    \E p \in Procs :
        /\ N(p) >= 1
        /\ analysis[p].outcome = "returned"
        /\ Len(analysis[p].onset_times) > N(p) + 1
        /\ Assembled(p)

(* C13 as stated: no command declares a negative display duration: for      *)
(* every image i the value of its -t option, cut_points[i+1] -               *)
(* cut_points[i], is >= 0, for every cut-point sequence the call accepts,   *)
(* caller-supplied explicit durations included.                             *)
C13_AsClaimed ==
    \A p \in Procs :
        Called(p) /\ Assembled(p) =>
            \A i \in 1..N(p) : command[p].inputs[i + 1].t[1] >= 0

\* the URLs a url-mode call has to fetch, in the order of lines 101-102
ToFetch(p) == request[p].images \o <<request[p].audio_file>>

(* C14: in url mode the images are fetched in order and then the audio,     *)
(* each at most once, and a download that fails (a response that is not a   *)
(* 200 with a body, or requests.get raising) is the last one the call       *)
(* makes: the call has ended in the error raised in download_images or      *)
(* download_music, nothing was validated or timed, no command was built and *)
(* the encoder was not started.  Directory mode fetches nothing.            *)
C14_DownloadFailureAborts ==
    \A p \in Procs :
        Called(p) =>
            /\ request[p].mode # "url" => fetched[p] = <<>>
            /\ request[p].mode = "url" =>
                  /\ Len(fetched[p]) <= N(p) + 1
                  /\ \A k \in 1..Len(fetched[p]) :
                        /\ fetched[p][k].url = ToFetch(p)[k]
                        /\ fetched[p][k].resp # "ok" =>
                              /\ k = Len(fetched[p])
                              /\ pc[p] = "done"
                              /\ result[p].status = "raised"
                              /\ result[p].line \in DownloadLines
                              /\ command[p] = NoCommand
                              /\ ~encoder_started[p]
                              /\ analysis[p] = NotCalled
                              /\ segment_durations[p] = request[p].segment_durations

\* the second of two images answered with an error status: the audio was not fetched
C14_Witness ==
    \E p \in Procs :
        /\ request[p].mode = "url"
        /\ N(p) = 2
        /\ Len(fetched[p]) = 2
        /\ fetched[p][2].resp = "http_error"
        /\ pc[p] = "done"

\* pads, written out: [i:v] / [i:a], and the labels
VideoOf(i) == [kind |-> "in", name |-> "v", n |-> i]
AudioOf(i) == [kind |-> "in", name |-> "a", n |-> i]
Empty0 == [kind |-> "label", name |-> "empty", n |-> 0]
Img(i) == [kind |-> "label", name |-> "img", n |-> i]
OutV == [kind |-> "label", name |-> "outv", n |-> 0]
OutA == [kind |-> "label", name |-> "outa", n |-> 0]

\* The chains a graph text describes.  A quote character opens or closes a
\* literal: inside one, separators and brackets are part of the filter's
\* argument.  Outside, ";" ends a chain; the pads before a chain's filters are
\* its inputs and the pads after them are its outputs.
NoChain == [ins |-> <<>>, outs |-> <<>>]
RECURSIVE ReadGraph(_, _, _, _, _)
ReadGraph(toks, k, quoted, body, chains) ==
    IF k > Len(toks) THEN chains
    ELSE LET t == toks[k]
             last == Len(chains)
         IN  IF t.kind = "quote"
             THEN ReadGraph(toks, k + 1, ~quoted, TRUE, chains)
             ELSE IF quoted \/ t.kind = "text"
             THEN ReadGraph(toks, k + 1, quoted, TRUE, chains)
             ELSE IF t.kind = "sep"
             THEN ReadGraph(toks, k + 1, FALSE, FALSE, Append(chains, NoChain))
             ELSE IF body
             THEN ReadGraph(toks, k + 1, quoted, body,
                     [chains EXCEPT ![last].outs = Append(@, t)])
             ELSE ReadGraph(toks, k + 1, quoted, body,
                     [chains EXCEPT ![last].ins = Append(@, t)])
Chains(fc) == ReadGraph(filter_complex_string(fc), 1, FALSE, FALSE, <<NoChain>>)
Consumed(g) == UNION {{g[k].ins[j] : j \in 1..Len(g[k].ins)} : k \in 1..Len(g)}
Defined(g) == UNION {{g[k].outs[j] : j \in 1..Len(g[k].outs)} : k \in 1..Len(g)}

\* C15: in every command built for N images the filter graph reads the inputs
\* in the order they are declared.  Input 0 is the black spacer and feeds the
\* chain labelled empty; input i (1 <= i <= N) is the i-th image and feeds the
\* chain labelled img{i}, which draws the i-th caption; input N+1 is the audio
\* source and feeds the audio chain.  The concat chain has n = N+1 and reads
\* empty, img1..imgN in that order; every label is defined once, every label
\* read is defined, and the only labels left unread are outv and outa, which
\* are the two streams mapped to the output.
C15_AsClaimed ==
    \A p \in Procs :
        Called(p) /\ Assembled(p) =>
            LET cmd == command[p]
                fc == cmd.filter_complex
                g == Chains(fc)
                n == N(p)
            IN  /\ Len(cmd.inputs) = n + 2
                /\ cmd.inputs[1].f = "lavfi"
                /\ cmd.inputs[1].i.dir = "lavfi"
                /\ \A i \in 1..n :
                    /\ cmd.inputs[i + 1].i = images[p][i]
                    /\ cmd.inputs[i + 1].loop
                    /\ fc[i + 1].text = request[p].texts[i]
                /\ cmd.inputs[n + 2].i =
                    IF audio_file[p] # None THEN audio_file[p] ELSE SilenceSource
                /\ fc[n + 2].op = "concat"
                /\ fc[n + 2].arg = n + 1
                /\ cmd.map = <<OutV, OutA>>
                /\ Len(g) = n + 3
                /\ g[1] = [ins |-> <<VideoOf(0)>>, outs |-> <<Empty0>>]
                /\ \A i \in 1..n : g[i + 1] = [ins |-> <<VideoOf(i)>>, outs |-> <<Img(i)>>]
                /\ g[n + 2] = [ins |-> <<Empty0>> \o [i \in 1..n |-> Img(i)],
                               outs |-> <<OutV>>]
                /\ g[n + 3] = [ins |-> <<AudioOf(n + 1)>>, outs |-> <<OutA>>]
                /\ \A x \in Consumed(g) :
                    IF x.kind = "label" THEN x \in Defined(g)
                    ELSE x.n \in 0..Len(cmd.inputs) - 1
                /\ Defined(g) \ Consumed(g) = {OutV, OutA}

\* the -t values of the first k image inputs, added up
RECURSIVE DeclaredLength(_, _)
DeclaredLength(inputs, k) ==
    IF k = 0 THEN 0 ELSE inputs[k + 1].t[1] + DeclaredLength(inputs, k - 1)

\* C16: in every assembled command the duration the audio is trimmed to is
\* the last cut point used, that is entry N of the N+1 cut points left after
\* truncation (for a longer list given by the caller, entry N of that list and
\* not its last entry), and it is the declared length of the video: the
\* spacer's duration plus the sum of the images' -t values.
C16_TrimIsTotalLength ==
    \A p \in Procs :
        Called(p) /\ Assembled(p) =>
            LET cmd == command[p]
                n == N(p)
                trim == cmd.filter_complex[n + 3]
                used == segment_durations[p].val
            IN  /\ trim.op = "atrim,volume"
                /\ Len(used) = n + 1
                /\ trim.arg = used[n + 1]
                /\ request[p].segment_durations.given =>
                       trim.arg = request[p].segment_durations.val[n + 1]
                /\ cmd.inputs[1].i.n = used[1]
                /\ \A i \in 1..n : cmd.inputs[i + 1].t = <<used[i + 1] - used[i]>>
                /\ trim.arg = cmd.inputs[1].i.n + DeclaredLength(cmd.inputs, n)

\* a command built from a caller's list that is longer than needed, ends on a
\* different value than the entry used, and starts after 0
C16_Witness ==
    \E p \in Procs :
        /\ Called(p) /\ Assembled(p)
        /\ N(p) >= 1
        /\ request[p].segment_durations.given
        /\ LET given == request[p].segment_durations.val
           IN  /\ Len(given) > N(p) + 1
               /\ given[Len(given)] # given[N(p) + 1]
               /\ given[1] > 0
               /\ given[N(p) + 1] > given[1]
=============================================================================
